---- MODULE Spec2Model ----
(***************************************************************************)
(* Bunsenite: the error model (src/error.rs) and the command-line router   *)
(* (src/main.rs).                                                          *)
(*                                                                         *)
(* Text is modelled by TLA+ strings; TLC treats a string as a sequence of  *)
(* characters (Len, \o, SubSeq).  A stream (stdout, stderr) is the         *)
(* sequence of the lines written to it.  The source's check mark and       *)
(* bullet characters are written "[v]" and "*" (strings are ASCII here).   *)
(***************************************************************************)
EXTENDS Integers, Sequences, FiniteSets, TLC

VARIABLES
    pc,         \* position of the process in main / handle_parse / handle_validate
    cli,        \* the parsed command line (struct Cli): command and verbose
    stdout,     \* what println! has written, one element per call
    stderr,     \* the lines eprintln! (and the panic hook) have written
    result,     \* `result` of main: what the dispatched operation returned
    exitCode,   \* the process's exit status once it has terminated
    calls,      \* the calls made to the collaborators (file system, loader, serializer), in
                \* order, each with its outcome and the length of stderr when it was made
    source,     \* `source` of handle_validate: the text read from the file
    value,      \* `result` of handle_parse: the value parse_file returned
    err,        \* error model: the Error under inspection
    recoverable,\* error model: what is_recoverable returned for err
    hint,       \* error model: what suggestion returned for err
    shown       \* error model: what display (format!("{}", err)) returned for err

mainVars == <<pc, cli, stdout, stderr, result, exitCode, calls, source, value>>
errVars == <<err, recoverable, hint, shown>>
vars == <<pc, cli, stdout, stderr, result, exitCode, calls, source, value,
          err, recoverable, hint, shown>>

(***************************************************************************)
(* Option and Result values.                                               *)
(***************************************************************************)
None == [tag |-> "None"]
Some(x) == [tag |-> "Some", some |-> x]
Ok(x) == [tag |-> "Ok", ok |-> x]
Err(e) == [tag |-> "Err", err |-> e]
Unit == "()"

\* text contains sub as a contiguous substring (str::contains)
Contains(text, sub) ==
    \E i \in 1..(Len(text) - Len(sub) + 1) : SubSeq(text, i, i + Len(sub) - 1) = sub

\* text starts with prefix (str::starts_with)
StartsWith(text, prefix) ==
    Len(prefix) <= Len(text) /\ SubSeq(text, 1, Len(prefix)) = prefix

(***************************************************************************)
(* src/error.rs: enum Error, its constructors and its methods.             *)
(***************************************************************************)

\* the payload strings the inputs are drawn from
FileNames == {"config.ncl", "a'b", ""}
Messages == {"unexpected token", "x: y", ""}

\* std::io::Error values: the kind and the text its Display writes
IoErrors ==
    { [io_kind |-> "NotFound", io_text |-> "No such file or directory (os error 2)"],
      [io_kind |-> "PermissionDenied", io_text |-> "Permission denied (os error 13)"],
      [io_kind |-> "InvalidData", io_text |-> "stream did not contain valid UTF-8"] }

io_display(e) == e.io_text

parse_error(file, message) == [kind |-> "ParseError", file |-> file, message |-> message]

evaluation_error(file, message) ==
    [kind |-> "EvaluationError", file |-> file, message |-> message]

serialization_error(message) == [kind |-> "SerializationError", msg |-> message]

\* #[from] std::io::Error: the conversion the ? operator applies
from_io_error(e) == [kind |-> "IoError", io |-> e]

invalid_input(message) == [kind |-> "InvalidInput", msg |-> message]

internal(message) == [kind |-> "Internal", msg |-> message]

Kinds == {"ParseError", "EvaluationError", "SerializationError", "IoError",
          "InvalidInput", "Internal"}

\* every Error value over the payloads above
Errors ==
    {parse_error(f, m) : f \in FileNames, m \in Messages}
    \cup {evaluation_error(f, m) : f \in FileNames, m \in Messages}
    \cup {serialization_error(m) : m \in Messages}
    \cup {from_io_error(e) : e \in IoErrors}
    \cup {invalid_input(m) : m \in Messages}
    \cup {internal(m) : m \in Messages}

\* display whose EvaluationError format leaves out the file
display_EvaluationWithoutFile(e) ==
    CASE e.kind = "ParseError" ->
            "Failed to parse Nickel file '" \o e.file \o "': " \o e.message
      [] e.kind = "EvaluationError" ->
            "Failed to evaluate Nickel program: " \o e.message
      [] e.kind = "SerializationError" -> "Failed to serialize result: " \o e.msg
      [] e.kind = "IoError" -> "File I/O error: " \o io_display(e.io)
      [] e.kind = "InvalidInput" -> "Invalid input: " \o e.msg
      [] e.kind = "Internal" -> "Internal error: " \o e.msg

\* impl Display (thiserror's #[error("...")] attributes)
display(e) ==
    CASE e.kind = "ParseError" ->
            "Failed to parse Nickel file '" \o e.file \o "': " \o e.message
      [] e.kind = "EvaluationError" ->
            "Failed to evaluate Nickel program '" \o e.file \o "': " \o e.message
      [] e.kind = "SerializationError" -> "Failed to serialize result: " \o e.msg
      [] e.kind = "IoError" -> "File I/O error: " \o io_display(e.io)
      [] e.kind = "InvalidInput" -> "Invalid input: " \o e.msg
      [] e.kind = "Internal" -> "Internal error: " \o e.msg

\* is_recoverable that forgets EvaluationError
is_recoverable_NoEvaluation(e) == e.kind \in {"ParseError", "InvalidInput"}

is_recoverable(e) == e.kind \in {"ParseError", "InvalidInput", "EvaluationError"}

\* suggestion that treats Internal as a problem with the input
suggestion_InternalAsInput(e) ==
    CASE e.kind = "ParseError" ->
            Some("Check your Nickel syntax. Run 'nickel check' for detailed diagnostics.")
      [] e.kind = "EvaluationError" ->
            Some("Ensure all variables are defined and types match.")
      [] e.kind = "InvalidInput" -> Some("Check the input format and try again.")
      [] e.kind = "SerializationError" ->
            Some("Ensure the Nickel program produces valid JSON-serializable values.")
      [] e.kind = "IoError" -> Some("Check file permissions and path.")
      [] e.kind = "Internal" -> Some("Check the input format and try again.")

suggestion(e) ==
    CASE e.kind = "ParseError" ->
            Some("Check your Nickel syntax. Run 'nickel check' for detailed diagnostics.")
      [] e.kind = "EvaluationError" ->
            Some("Ensure all variables are defined and types match.")
      [] e.kind = "InvalidInput" -> Some("Check the input format and try again.")
      [] e.kind = "SerializationError" ->
            Some("Ensure the Nickel program produces valid JSON-serializable values.")
      [] e.kind = "IoError" -> Some("Check file permissions and path.")
      [] e.kind = "Internal" ->
            Some("This is a bug. Please report it at: https://gitlab.com/campaign-for-cooler-coding-and-programming/bunsenite/-/issues")

(***************************************************************************)
(* std::path: a PathBuf is the sequence of its components                  *)
(* (Path::components).  A component that is not valid Unicode carries, as  *)
(* text, its lossy rendering.                                              *)
(***************************************************************************)
MaxPathLen == 2

Normal(text) == [ckind |-> "Normal", text |-> text, unicode |-> TRUE]
NonUnicode(lossy) == [ckind |-> "Normal", text |-> lossy, unicode |-> FALSE]
ParentDir == [ckind |-> "ParentDir", text |-> "..", unicode |-> TRUE]

Components == {Normal("config.ncl"), Normal("conf"), NonUnicode("caf?.ncl"), ParentDir}

RECURSIVE SeqsUpTo(_, _)
SeqsUpTo(S, n) ==
    IF n = 0 THEN {<<>>}
    ELSE LET R == SeqsUpTo(S, n - 1)
         IN R \cup {Append(q, x) : q \in {r \in R : Len(r) = n - 1}, x \in S}

\* the FILE arguments: non-empty paths
Paths == SeqsUpTo(Components, MaxPathLen) \ {<<>>}

\* Path::display: the components joined by the separator, lossily
RECURSIVE path_display(_)
path_display(p) ==
    IF Len(p) = 0 THEN ""
    ELSE IF Len(p) = 1 THEN p[1].text
    ELSE path_display(SubSeq(p, 1, Len(p) - 1)) \o "/" \o p[Len(p)].text

\* Path::file_name: the final component, if it is a normal one
file_name(p) ==
    IF Len(p) > 0 /\ p[Len(p)].ckind = "Normal" THEN Some(p[Len(p)]) ELSE None

\* OsStr::to_str: the text, if it is valid Unicode
to_str(n) == IF n.unicode THEN Some(n.text) ELSE None

unwrap_or(o, d) == IF o.tag = "Some" THEN o.some ELSE d

\* display_name that renders the base name lossily instead of falling back
display_name_Lossy(file) ==
    IF file_name(file).tag = "Some" THEN file_name(file).some.text ELSE "unknown.ncl"

\* handle_validate's `name`
display_name(file) ==
    LET base == file_name(file)
        text == IF base.tag = "Some" THEN to_str(base.some) ELSE None  \* and_then
    IN unwrap_or(text, "unknown.ncl")

(***************************************************************************)
(* The file system: std::fs::read_to_string.                               *)
(***************************************************************************)
Sources == {"{ a = 1 }", "{ a = ", ""}

\* A path whose last component is ".." names a directory, which cannot be
\* read as a file; any other read succeeds with some text or fails.
ReadOutcomes(file) ==
    {Err(e) : e \in IoErrors}
    \cup (IF file_name(file).tag = "Some" THEN {Ok(s) : s \in Sources} ELSE {})

(***************************************************************************)
(* The value parse_file returns and serde_json's rendering of it.  The     *)
(* value's type is the loader's; a map of it may have a key that is no     *)
(* string, which serde_json refuses.                                       *)
(***************************************************************************)
MaxDepth == 1

Null == [t |-> "Null"]
Bool(b) == [t |-> "Bool", b |-> b]
Number(n) == [t |-> "Number", n |-> n]
String(s) == [t |-> "String", s |-> s]
Array(items) == [t |-> "Array", items |-> items]
Map(entries) == [t |-> "Map", entries |-> entries]

Scalars == {Null, Bool(TRUE), Number(-2), String("a\"b")}
MapKeys == {String("k"), Null}

RECURSIVE ValuesOfDepth(_)
ValuesOfDepth(d) ==
    IF d = 0 THEN Scalars
    ELSE LET V == ValuesOfDepth(d - 1)
         IN V \cup {Array(<<>>), Map(<<>>)}
              \cup {Array(<<v>>) : v \in V}
              \cup {Array(<<v, Null>>) : v \in V}
              \cup {Map(<< <<k, v>> >>) : k \in MapKeys, v \in V}
              \cup {Map(<< <<String("a"), Null>>, <<String("k"), v>> >>) : v \in V}

Values == ValuesOfDepth(MaxDepth)

\* the characters of a string, escaped as JSON escapes them
RECURSIVE escape(_)
escape(s) ==
    IF Len(s) = 0 THEN ""
    ELSE LET c == SubSeq(s, 1, 1)
         IN (IF c = "\"" THEN "\\\"" ELSE IF c = "\\" THEN "\\\\" ELSE c)
            \o escape(SubSeq(s, 2, Len(s)))

RECURSIVE spaces(_)
spaces(n) == IF n = 0 THEN "" ELSE "  " \o spaces(n - 1)

\* serde_json's serializer: Ok(text) or Err(message).  `pretty` selects the
\* PrettyFormatter (two-space indent), `level` is the nesting depth.
RECURSIVE serialize(_, _, _)
RECURSIVE serialize_items(_, _, _, _)
RECURSIVE serialize_entries(_, _, _, _)
serialize(v, pretty, level) ==
    CASE v.t = "Null" -> Ok("null")
      [] v.t = "Bool" -> Ok(IF v.b THEN "true" ELSE "false")
      [] v.t = "Number" -> Ok(ToString(v.n))
      [] v.t = "String" -> Ok("\"" \o escape(v.s) \o "\"")
      [] v.t = "Array" ->
            IF Len(v.items) = 0 THEN Ok("[]")
            ELSE LET r == serialize_items(v.items, pretty, level + 1, TRUE)
                 IN IF r.tag = "Err" THEN r
                    ELSE Ok("[" \o r.ok
                            \o (IF pretty THEN "\n" \o spaces(level) ELSE "") \o "]")
      [] v.t = "Map" ->
            IF Len(v.entries) = 0 THEN Ok("{}")
            ELSE LET r == serialize_entries(v.entries, pretty, level + 1, TRUE)
                 IN IF r.tag = "Err" THEN r
                    ELSE Ok("{" \o r.ok
                            \o (IF pretty THEN "\n" \o spaces(level) ELSE "") \o "}")

serialize_items(items, pretty, level, first) ==
    IF Len(items) = 0 THEN Ok("")
    ELSE LET head == serialize(items[1], pretty, level)
             rest == serialize_items(Tail(items), pretty, level, FALSE)
             sep == IF pretty THEN (IF first THEN "\n" ELSE ",\n") \o spaces(level)
                    ELSE (IF first THEN "" ELSE ",")
         IN IF head.tag = "Err" THEN head
            ELSE IF rest.tag = "Err" THEN rest
            ELSE Ok(sep \o head.ok \o rest.ok)

serialize_entries(entries, pretty, level, first) ==
    IF Len(entries) = 0 THEN Ok("")
    ELSE LET key == entries[1][1]
             head == serialize(entries[1][2], pretty, level)
             rest == serialize_entries(Tail(entries), pretty, level, FALSE)
             sep == IF pretty THEN (IF first THEN "\n" ELSE ",\n") \o spaces(level)
                    ELSE (IF first THEN "" ELSE ",")
         IN IF key.t # "String" THEN Err("key must be a string")
            ELSE IF head.tag = "Err" THEN head
            ELSE IF rest.tag = "Err" THEN rest
            ELSE Ok(sep \o "\"" \o escape(key.s) \o "\""
                    \o (IF pretty THEN ": " ELSE ":") \o head.ok \o rest.ok)

\* serde_json::to_string
to_string(v) == serialize(v, FALSE, 0)

\* serde_json::to_string_pretty
to_string_pretty(v) == serialize(v, TRUE, 0)

(***************************************************************************)
(* The loader (bunsenite::NickelLoader), by its call contract: parse_file  *)
(* returns a value or an Error, validate returns () or an Error.           *)
(***************************************************************************)
ParseFileOutcomes == {Ok(v) : v \in Values} \cup {Err(e) : e \in Errors}

ValidateOutcomes == {Ok(Unit)} \cup {Err(e) : e \in Errors}

VERSION == "1.0.0"

(***************************************************************************)
(* src/main.rs: the texts it prints.                                       *)
(***************************************************************************)
get_help_text ==
    "Bunsenite v" \o VERSION \o "\n"
    \o "Nickel configuration file parser\n\n"
    \o "USAGE:\n    bunsenite <COMMAND>\n\n"
    \o "COMMANDS:\n"
    \o "    parse       Parse and evaluate a Nickel configuration file\n"
    \o "    validate    Validate a Nickel configuration without evaluating it\n"
    \o "    info        Show version and compliance information\n"
    \o "    help        Print this message or the help of the given subcommand(s)\n\n"
    \o "OPTIONS:\n"
    \o "    -v, --verbose    Enable verbose output\n"
    \o "    -h, --help       Print help information\n"
    \o "    -V, --version    Print version information\n\n"
    \o "EXAMPLES:\n"
    \o "    # Parse and evaluate a config file\n    bunsenite parse config.ncl\n\n"
    \o "    # Parse with pretty-printed output\n    bunsenite parse config.ncl --pretty\n\n"
    \o "    # Validate without evaluating\n    bunsenite validate config.ncl\n\n"
    \o "    # Show info\n    bunsenite info\n\n"
    \o "For more information, visit:\n"
    \o "https://gitlab.com/campaign-for-cooler-coding-and-programming/bunsenite\n"

\* the println! calls of handle_info, in order
info_lines ==
    << "Bunsenite v" \o VERSION,
       "",
       "A Nickel configuration file parser with multi-language FFI bindings",
       "",
       "Features:",
       "  * Type Safety: Compile-time guarantees via Rust's type system",
       "  * Memory Safety: Rust ownership model, zero unsafe blocks",
       "  * Offline-First: Works completely air-gapped, no network dependencies",
       "  * Multi-Language: FFI bindings for Deno, Rescript, and WASM",
       "",
       "Standards Compliance:",
       "  * RSR Framework: Bronze Tier",
       "  * TPCF Perimeter: 3 (Community Sandbox)",
       "  * License: Dual MIT + Palimpsest 0.8",
       "",
       "Repository: https://gitlab.com/campaign-for-cooler-coding-and-programming/bunsenite",
       "" >>

parse_trace(file) == "Parsing file: " \o path_display(file)
parse_done_trace == "[v] Successfully parsed and evaluated"
validate_trace(file) == "Validating file: " \o path_display(file)
validate_confirmation == "[v] Configuration is valid"

\* what the panic hook writes when Result::unwrap meets an Err
panic_line(msg) ==
    "thread 'main' panicked: called 'Result::unwrap()' on an 'Err' value: " \o msg

\* the lines main writes for an Error: eprintln!("Error: {}") and, for a
\* suggestion, eprintln!("\nSuggestion: {}"), whose leading newline is an empty line
error_lines(e) ==
    <<"Error: " \o display(e)>>
    \o (IF suggestion(e).tag = "Some"
        THEN <<"", "Suggestion: " \o suggestion(e).some>>
        ELSE <<>>)

(***************************************************************************)
(* The command lines Cli::parse accepts.                                   *)
(***************************************************************************)
Commands ==
    {[cmd |-> "Parse", file |-> f, pretty |-> b] : f \in Paths, b \in BOOLEAN}
    \cup {[cmd |-> "Validate", file |-> f] : f \in Paths}
    \cup {[cmd |-> "Info"], [cmd |-> "NoCommand"]}

Clis == {[command |-> c, verbose |-> v] : c \in Commands, v \in BOOLEAN}

ErrIdle ==
    /\ err = None
    /\ recoverable = None
    /\ hint = None
    /\ shown = None

Init ==
    /\ pc = "main"
    /\ cli \in Clis
    /\ stdout = <<>>
    /\ stderr = <<>>
    /\ result = None
    /\ exitCode = None
    /\ calls = <<>>
    /\ source = None
    /\ value = None
    /\ ErrIdle

(***************************************************************************)
(* handle_parse                                                            *)
(***************************************************************************)
\* HandleParseEnter with println! in place of eprintln!
HandleParseEnter_TraceToStdout ==
    /\ pc = "main"
    /\ cli.command.cmd = "Parse"
    /\ stdout' = IF cli.verbose THEN Append(stdout, parse_trace(cli.command.file))
                 ELSE stdout
    /\ pc' = "parse_load"
    /\ UNCHANGED <<cli, stderr, result, exitCode, calls, source, value>>
    /\ UNCHANGED errVars

\* main's Parse arm enters handle_parse: the trace before the loader call
HandleParseEnter ==
    /\ pc = "main"
    /\ cli.command.cmd = "Parse"
    /\ stderr' = IF cli.verbose THEN Append(stderr, parse_trace(cli.command.file))
                 ELSE stderr
    /\ pc' = "parse_load"
    /\ UNCHANGED <<cli, stdout, result, exitCode, calls, source, value>>
    /\ UNCHANGED errVars

\* HandleParseLoad that swallows the loader's error
HandleParseLoad_Swallow ==
    /\ pc = "parse_load"
    /\ \E out \in ParseFileOutcomes :
          /\ calls' = Append(calls, [op |-> "parse_file", path |-> cli.command.file,
                                     verbose |-> cli.verbose, out |-> out,
                                     at |-> Len(stderr)])
          /\ IF out.tag = "Ok"
             THEN /\ value' = Some(out.ok)
                  /\ pc' = "parse_print"
                  /\ UNCHANGED result
             ELSE /\ result' = Ok(Unit)
                  /\ pc' = "main_result"
                  /\ UNCHANGED value
    /\ UNCHANGED <<cli, stdout, stderr, exitCode, source>>
    /\ UNCHANGED errVars

\* NickelLoader::new().with_verbose(verbose); loader.parse_file(&file)?
HandleParseLoad ==
    /\ pc = "parse_load"
    /\ \E out \in ParseFileOutcomes :
          /\ calls' = Append(calls, [op |-> "parse_file", path |-> cli.command.file,
                                     verbose |-> cli.verbose, out |-> out,
                                     at |-> Len(stderr)])
          /\ IF out.tag = "Ok"
             THEN /\ value' = Some(out.ok)
                  /\ pc' = "parse_print"
                  /\ UNCHANGED result
             ELSE /\ result' = Err(out.err)
                  /\ pc' = "main_result"
                  /\ UNCHANGED value
    /\ UNCHANGED <<cli, stdout, stderr, exitCode, source>>
    /\ UNCHANGED errVars

\* println!("{}", serde_json::to_string[_pretty](&result).unwrap())
HandleParsePrint ==
    /\ pc = "parse_print"
    /\ LET json == IF cli.command.pretty THEN to_string_pretty(value.some)
                   ELSE to_string(value.some)
       IN /\ calls' = Append(calls,
                        [op |-> IF cli.command.pretty THEN "to_string_pretty"
                                ELSE "to_string",
                         out |-> json, at |-> Len(stderr)])
          /\ IF json.tag = "Ok"
             THEN /\ stdout' = Append(stdout, json.ok)
                  /\ pc' = "parse_done"
                  /\ UNCHANGED <<stderr, exitCode>>
             ELSE \* unwrap panics: the process unwinds out of main
                  /\ stderr' = Append(stderr, panic_line(json.err))
                  /\ exitCode' = Some(101)
                  /\ pc' = "done"
                  /\ UNCHANGED stdout
    /\ UNCHANGED <<cli, result, source, value>>
    /\ UNCHANGED errVars

\* HandleParseReturn without the trace
HandleParseReturn_NoTrace ==
    /\ pc = "parse_done"
    /\ result' = Ok(Unit)
    /\ pc' = "main_result"
    /\ UNCHANGED <<cli, stdout, stderr, exitCode, calls, source, value>>
    /\ UNCHANGED errVars

\* the trace after the result is printed, and Ok(())
HandleParseReturn ==
    /\ pc = "parse_done"
    /\ stderr' = IF cli.verbose THEN Append(stderr, parse_done_trace) ELSE stderr
    /\ result' = Ok(Unit)
    /\ pc' = "main_result"
    /\ UNCHANGED <<cli, stdout, exitCode, calls, source, value>>
    /\ UNCHANGED errVars

(***************************************************************************)
(* handle_validate                                                         *)
(***************************************************************************)
HandleValidateEnter ==
    /\ pc = "main"
    /\ cli.command.cmd = "Validate"
    /\ stderr' = IF cli.verbose THEN Append(stderr, validate_trace(cli.command.file))
                 ELSE stderr
    /\ pc' = "validate_read"
    /\ UNCHANGED <<cli, stdout, result, exitCode, calls, source, value>>
    /\ UNCHANGED errVars

\* HandleValidateRead that reads the file a second time when the first read fails
HandleValidateRead_Retry ==
    /\ pc = "validate_read"
    /\ \E first \in ReadOutcomes(cli.command.file) :
          LET c1 == [op |-> "read_to_string", path |-> cli.command.file,
                     out |-> first, at |-> Len(stderr)]
          IN IF first.tag = "Ok"
             THEN /\ calls' = Append(calls, c1)
                  /\ source' = Some(first.ok)
                  /\ pc' = "validate_call"
                  /\ UNCHANGED result
             ELSE \E out \in ReadOutcomes(cli.command.file) :
                  /\ calls' = calls \o <<c1, [op |-> "read_to_string",
                                              path |-> cli.command.file,
                                              out |-> out, at |-> Len(stderr)]>>
                  /\ IF out.tag = "Ok"
                     THEN /\ source' = Some(out.ok)
                          /\ pc' = "validate_call"
                          /\ UNCHANGED result
                     ELSE /\ result' = Err(from_io_error(out.err))
                          /\ pc' = "main_result"
                          /\ UNCHANGED source
    /\ UNCHANGED <<cli, stdout, stderr, exitCode, value>>
    /\ UNCHANGED errVars

\* std::fs::read_to_string(&file)?
HandleValidateRead ==
    /\ pc = "validate_read"
    /\ \E out \in ReadOutcomes(cli.command.file) :
          /\ calls' = Append(calls, [op |-> "read_to_string",
                                     path |-> cli.command.file, out |-> out,
                                     at |-> Len(stderr)])
          /\ IF out.tag = "Ok"
             THEN /\ source' = Some(out.ok)
                  /\ pc' = "validate_call"
                  /\ UNCHANGED result
             ELSE /\ result' = Err(from_io_error(out.err))
                  /\ pc' = "main_result"
                  /\ UNCHANGED source
    /\ UNCHANGED <<cli, stdout, stderr, exitCode, value>>
    /\ UNCHANGED errVars

\* the display name; NickelLoader::new().with_verbose(verbose); loader.validate(&source, name)?
HandleValidateCall ==
    /\ pc = "validate_call"
    /\ \E out \in ValidateOutcomes :
          /\ calls' = Append(calls, [op |-> "validate", src |-> source.some,
                                     name |-> display_name(cli.command.file),
                                     verbose |-> cli.verbose, out |-> out,
                                     at |-> Len(stderr)])
          /\ IF out.tag = "Ok"
             THEN /\ pc' = "validate_print"
                  /\ UNCHANGED result
             ELSE /\ result' = Err(out.err)
                  /\ pc' = "main_result"
    /\ UNCHANGED <<cli, stdout, stderr, exitCode, source, value>>
    /\ UNCHANGED errVars

\* the confirmation line, and Ok(())
HandleValidateReturn ==
    /\ pc = "validate_print"
    /\ stdout' = Append(stdout, validate_confirmation)
    /\ result' = Ok(Unit)
    /\ pc' = "main_result"
    /\ UNCHANGED <<cli, stderr, exitCode, calls, source, value>>
    /\ UNCHANGED errVars

(***************************************************************************)
(* handle_info, the arm without a command, and the end of main             *)
(***************************************************************************)
HandleInfo ==
    /\ pc = "main"
    /\ cli.command.cmd = "Info"
    /\ stdout' = stdout \o info_lines
    /\ result' = Ok(Unit)
    /\ pc' = "main_result"
    /\ UNCHANGED <<cli, stderr, exitCode, calls, source, value>>
    /\ UNCHANGED errVars

NoCommand ==
    /\ pc = "main"
    /\ cli.command.cmd = "NoCommand"
    /\ stdout' = Append(stdout, get_help_text)
    /\ result' = Ok(Unit)
    /\ pc' = "main_result"
    /\ UNCHANGED <<cli, stderr, exitCode, calls, source, value>>
    /\ UNCHANGED errVars

\* MainResult without process::exit(1): the error is printed and main returns
MainResult_ExitZero ==
    /\ pc = "main_result"
    /\ IF result.tag = "Err"
       THEN /\ stderr' = stderr \o error_lines(result.err)
            /\ exitCode' = Some(0)
       ELSE /\ exitCode' = Some(0)
            /\ UNCHANGED stderr
    /\ pc' = "done"
    /\ UNCHANGED <<cli, stdout, result, calls, source, value>>
    /\ UNCHANGED errVars

\* if let Err(e) = result { ...; process::exit(1) }; falling off main exits 0
MainResult ==
    /\ pc = "main_result"
    /\ IF result.tag = "Err"
       THEN /\ stderr' = stderr \o error_lines(result.err)
            /\ exitCode' = Some(1)
       ELSE /\ exitCode' = Some(0)
            /\ UNCHANGED stderr
    /\ pc' = "done"
    /\ UNCHANGED <<cli, stdout, result, calls, source, value>>
    /\ UNCHANGED errVars

Next ==
    \/ HandleParseEnter
    \/ HandleParseLoad
    \/ HandleParsePrint
    \/ HandleParseReturn
    \/ HandleValidateEnter
    \/ HandleValidateRead
    \/ HandleValidateCall
    \/ HandleValidateReturn
    \/ HandleInfo
    \/ NoCommand
    \/ MainResult

Spec == Init /\ [][Next]_vars

(***************************************************************************)
(* The error model on its own: an Error is built by one of its             *)
(* constructors, then its methods are applied to it.                       *)
(***************************************************************************)
ErrInit ==
    /\ pc = "main"
    /\ cli = [command |-> [cmd |-> "NoCommand"], verbose |-> FALSE]
    /\ stdout = <<>>
    /\ stderr = <<>>
    /\ result = None
    /\ exitCode = None
    /\ calls = <<>>
    /\ source = None
    /\ value = None
    /\ ErrIdle

NewParseError ==
    /\ err = None
    /\ \E f \in FileNames, m \in Messages : err' = parse_error(f, m)
    /\ UNCHANGED <<recoverable, hint, shown>>
    /\ UNCHANGED mainVars

NewEvaluationError ==
    /\ err = None
    /\ \E f \in FileNames, m \in Messages : err' = evaluation_error(f, m)
    /\ UNCHANGED <<recoverable, hint, shown>>
    /\ UNCHANGED mainVars

NewSerializationError ==
    /\ err = None
    /\ \E m \in Messages : err' = serialization_error(m)
    /\ UNCHANGED <<recoverable, hint, shown>>
    /\ UNCHANGED mainVars

NewIoError ==
    /\ err = None
    /\ \E e \in IoErrors : err' = from_io_error(e)
    /\ UNCHANGED <<recoverable, hint, shown>>
    /\ UNCHANGED mainVars

NewInvalidInput ==
    /\ err = None
    /\ \E m \in Messages : err' = invalid_input(m)
    /\ UNCHANGED <<recoverable, hint, shown>>
    /\ UNCHANGED mainVars

NewInternal ==
    /\ err = None
    /\ \E m \in Messages : err' = internal(m)
    /\ UNCHANGED <<recoverable, hint, shown>>
    /\ UNCHANGED mainVars

CallIsRecoverable ==
    /\ err # None
    /\ recoverable = None
    /\ recoverable' = Some(is_recoverable(err))
    /\ UNCHANGED <<err, hint, shown>>
    /\ UNCHANGED mainVars

CallSuggestion ==
    /\ err # None
    /\ hint = None
    /\ hint' = Some(suggestion(err))
    /\ UNCHANGED <<err, recoverable, shown>>
    /\ UNCHANGED mainVars

CallDisplay ==
    /\ err # None
    /\ shown = None
    /\ shown' = Some(display(err))
    /\ UNCHANGED <<err, recoverable, hint>>
    /\ UNCHANGED mainVars

ErrNext ==
    \/ NewParseError
    \/ NewEvaluationError
    \/ NewSerializationError
    \/ NewIoError
    \/ NewInvalidInput
    \/ NewInternal
    \/ CallIsRecoverable
    \/ CallSuggestion
    \/ CallDisplay

ErrSpec == ErrInit /\ [][ErrNext]_vars

(***************************************************************************)
(* Properties.                                                             *)
(***************************************************************************)
Terminated == pc = "done"

Cmd == cli.command.cmd

\* the indices of the calls with one of the given operations
CallsOf(ops) == {i \in DOMAIN calls : calls[i].op \in ops}

LoaderOps == {"parse_file", "validate"}
FormatOps == {"to_string", "to_string_pretty"}

\* a diagnostic trace line of handle_parse or handle_validate
IsTrace(line) ==
    \/ StartsWith(line, "Parsing file: ")
    \/ StartsWith(line, "Validating file: ")
    \/ line = parse_done_trace

\* C1: once the process has terminated, its status is 1 exactly when the
\* dispatched operation returned an Error and 0 exactly when it returned
\* success; Info and NoCommand always end with status 0.
C1_ExitStatusMatchesResult ==
    Terminated =>
        /\ exitCode # None
        /\ (exitCode = Some(1)) <=> (result.tag = "Err")
        /\ (exitCode = Some(0)) <=> (result.tag = "Ok")
        /\ Cmd \in {"Info", "NoCommand"} => exitCode = Some(0)

C1_Witness ==
    /\ Terminated
    /\ Cmd = "Validate"
    /\ result.tag = "Err"
    /\ exitCode = Some(1)

\* C2: in Parse, when parse_file succeeded and the value could not be
\* formatted, the operation returned a SerializationError that main printed,
\* and the process ended with status 1.
C2_FormatFailureIsSerializationError ==
    (Terminated /\ \E i \in CallsOf(FormatOps) : calls[i].out.tag = "Err") =>
        /\ result.tag = "Err"
        /\ result.err.kind = "SerializationError"
        /\ exitCode = Some(1)
        /\ \E j \in DOMAIN stderr : stderr[j] = "Error: " \o display(result.err)

\* what standard output holds after a successful run of each command
ExpectedStdout ==
    CASE Cmd = "Parse" ->
            <<(IF cli.command.pretty THEN to_string_pretty(value.some)
               ELSE to_string(value.some)).ok>>
      [] Cmd = "Validate" -> <<validate_confirmation>>
      [] Cmd = "Info" -> info_lines
      [] Cmd = "NoCommand" -> <<get_help_text>>

\* C3: no trace line is ever on standard output and, with verbose, the trace
\* is on the error stream; a run that returned an Error, or ended with a
\* non-zero status, wrote nothing to standard output; a run that ended with
\* status 0 wrote exactly its result to standard output.
C3_StdoutCarriesOnlyResults ==
    /\ \A i \in DOMAIN stdout : ~IsTrace(stdout[i])
    /\ (cli.verbose /\ Cmd \in {"Parse", "Validate"} /\ pc # "main") =>
            /\ Len(stderr) >= 1
            /\ IsTrace(stderr[1])
    /\ result.tag = "Err" => stdout = <<>>
    /\ (Terminated /\ exitCode # Some(0)) => stdout = <<>>
    /\ (Terminated /\ exitCode = Some(0)) => stdout = ExpectedStdout

C3_Witness ==
    /\ Terminated
    /\ cli.verbose
    /\ Cmd = "Parse"
    /\ result.tag = "Err"
    /\ Len(stderr) > 1
    /\ stdout = <<>>

\* the Error a failed collaborator call hands to the router: the loader's
\* Error itself, or the IoError that carries the file read's io::Error
Carried(call) ==
    IF call.op = "read_to_string" THEN [kind |-> "IoError", io |-> call.out.err]
    ELSE call.out.err

ErrorLineIndices == {j \in DOMAIN stderr : StartsWith(stderr[j], "Error: ")}
SuggestionLineIndices == {j \in DOMAIN stderr : StartsWith(stderr[j], "Suggestion: ")}

\* C4: a failed loader call or file read is the last call made (no retry),
\* its error is main's result unchanged, nothing renders it before main
\* does, and main renders it once: "Error: " and the display text, then the
\* suggestion on a later line after "Suggestion: ", and status 1.
C4_ErrorsPropagateUnchanged ==
    \A i \in CallsOf(LoaderOps \cup {"read_to_string"}) :
        calls[i].out.tag = "Err" =>
            /\ i = Len(calls)
            /\ result = Err(Carried(calls[i]))
            /\ pc \in {"main_result", "done"}
            /\ pc = "main_result" =>
                    /\ ErrorLineIndices = {}
                    /\ SuggestionLineIndices = {}
            /\ pc = "done" =>
                    /\ exitCode = Some(1)
                    /\ Cardinality(ErrorLineIndices) = 1
                    /\ Cardinality(SuggestionLineIndices) = 1
                    /\ \A a \in ErrorLineIndices, b \in SuggestionLineIndices :
                          /\ a < b
                          /\ b = Len(stderr)
                          /\ stderr[a] = "Error: " \o display(Carried(calls[i]))
                          /\ suggestion(Carried(calls[i])).tag = "Some"
                          /\ stderr[b] = "Suggestion: "
                                         \o suggestion(Carried(calls[i])).some

C4_Witness ==
    /\ Terminated
    /\ Cmd = "Validate"
    /\ Len(calls) = 1
    /\ calls[1].out.tag = "Err"
    /\ result = Err(from_io_error(calls[1].out.err))
    /\ Len(stderr) = 3

LoaderCallCount == Cardinality(CallsOf(LoaderOps))
FileReadCount == Cardinality(CallsOf({"read_to_string"}))
StdoutWriteCount == Len(stdout)

\* the collaborator calls belong to the one command of the invocation
CallsMatchCommand ==
    \A i \in DOMAIN calls :
        /\ calls[i].op \in {"parse_file"} \cup FormatOps => Cmd = "Parse"
        /\ calls[i].op \in {"validate", "read_to_string"} => Cmd = "Validate"

\* C5 as stated: at most one loader call, at most one file read and at most
\* one write to standard output, whatever the command.
C5_AtMostOneOfEach ==
    /\ CallsMatchCommand
    /\ LoaderCallCount <= 1
    /\ FileReadCount <= 1
    /\ StdoutWriteCount <= 1

\* C5, amended: at most one loader call and at most one file read whatever
\* the command; at most one write to standard output for Parse, Validate and
\* NoCommand; Info calls nothing and writes its 17 lines one println! each.
C5_AtMostOneExceptInfoLines ==
    /\ CallsMatchCommand
    /\ LoaderCallCount <= 1
    /\ FileReadCount <= 1
    /\ Cmd # "Info" => StdoutWriteCount <= 1
    /\ Cmd = "Info" =>
            /\ calls = <<>>
            /\ StdoutWriteCount = (IF pc = "main" THEN 0 ELSE 17)

C5_Witness ==
    /\ Terminated
    /\ Cmd = "Validate"
    /\ LoaderCallCount = 1
    /\ FileReadCount = 1
    /\ StdoutWriteCount = 1

C5_InfoWitness ==
    /\ Terminated
    /\ Cmd = "Info"
    /\ StdoutWriteCount = 17

TraceIndices == {j \in DOMAIN stderr : IsTrace(stderr[j])}

\* C6 as stated, for the loader calls that succeed: with verbose, a trace
\* line is on the error stream before the call and, once the run has ended
\* with status 0, another one after it; without verbose there is none.
C6_TraceBeforeAndAfterEachCall ==
    /\ cli.verbose =>
          \A i \in CallsOf(LoaderOps) :
              /\ \E j \in TraceIndices : j <= calls[i].at
              /\ (Terminated /\ exitCode = Some(0)) =>
                      \E j \in TraceIndices : j > calls[i].at
    /\ ~cli.verbose => TraceIndices = {}

\* the trace the command writes before its loader call
BeforeTrace ==
    IF Cmd = "Parse" THEN "Parsing file: " \o path_display(cli.command.file)
    ELSE "Validating file: " \o path_display(cli.command.file)

\* C6, amended: with verbose, the command's trace line is on the error
\* stream before each loader call (and before Validate's file read); the
\* only trace after a call is Parse's, written once parse_file has succeeded
\* and the JSON is on standard output; Validate writes none after validate
\* returns, and no operation writes one when it returns an Error; without
\* verbose there is no trace line.
C6_TraceBeforeCallAfterParseOnly ==
    /\ cli.verbose =>
          /\ \A i \in CallsOf(LoaderOps \cup {"read_to_string"}) :
                /\ calls[i].at >= 1
                /\ stderr[1] = BeforeTrace
          /\ \A j \in TraceIndices :
                j > 1 => /\ Cmd = "Parse"
                         /\ j = 2
                         /\ stderr[j] = parse_done_trace
                         /\ Len(stdout) = 1
                         /\ \A i \in CallsOf({"parse_file"}) :
                               calls[i].out.tag = "Ok" /\ calls[i].at < j
          /\ (Terminated /\ Cmd = "Parse" /\ exitCode = Some(0)) =>
                stderr = <<BeforeTrace, parse_done_trace>>
          /\ (Terminated /\ Cmd = "Validate" /\ exitCode = Some(0)) =>
                stderr = <<BeforeTrace>>
          /\ result.tag = "Err" => TraceIndices = {1}
    /\ ~cli.verbose => TraceIndices = {}

C6_Witness ==
    /\ Terminated
    /\ cli.verbose
    /\ Cmd = "Parse"
    /\ exitCode = Some(0)
    /\ Len(stderr) = 2

C6_ValidateWitness ==
    /\ Terminated
    /\ cli.verbose
    /\ Cmd = "Validate"
    /\ exitCode = Some(0)
    /\ Len(stderr) = 1

\* C7: is_recoverable returns true for ParseError, EvaluationError and
\* InvalidInput and false for SerializationError, IoError and Internal, and
\* the same for every Error of the same kind, whatever its payload.
C7_RecoverableByKindOnly ==
    (err # None /\ recoverable # None) =>
        /\ recoverable.some \in BOOLEAN
        /\ err.kind \in {"ParseError", "EvaluationError", "InvalidInput"} =>
                recoverable.some = TRUE
        /\ err.kind \in {"SerializationError", "IoError", "Internal"} =>
                recoverable.some = FALSE
        /\ \A e \in Errors : e.kind = err.kind => is_recoverable(e) = recoverable.some

C7_Witness ==
    /\ err # None
    /\ err.kind = "EvaluationError"
    /\ err.message = "x: y"
    /\ recoverable = Some(TRUE)

\* C8: suggestion returns the same text for every Error of the same kind,
\* whatever its payload; IoError's tells the user to check file permissions
\* and path; Internal's says that the failure is a bug and asks to report it.
C8_SuggestionByKindOnly ==
    (err # None /\ hint # None) =>
        /\ hint.some.tag \in {"Some", "None"}
        /\ \A e \in Errors : e.kind = err.kind => suggestion(e) = hint.some
        /\ err.kind = "IoError" =>
                /\ hint.some.tag = "Some"
                /\ Contains(hint.some.some, "Check file permissions")
                /\ Contains(hint.some.some, "path")
        /\ err.kind = "Internal" =>
                /\ hint.some.tag = "Some"
                /\ Contains(hint.some.some, "This is a bug")
                /\ Contains(hint.some.some, "report it")

C8_Witness ==
    /\ err # None
    /\ err.kind = "Internal"
    /\ hint # None
    /\ hint.some.tag = "Some"

\* the payload of an Error as the claim's format shows it
HasFile(e) == e.kind \in {"ParseError", "EvaluationError"}
MessageOf(e) ==
    IF HasFile(e) THEN e.message
    ELSE IF e.kind = "IoError" THEN e.io.io_text
    ELSE e.msg
PayloadText(e) ==
    IF HasFile(e) THEN " '" \o e.file \o "': " \o e.message ELSE ": " \o MessageOf(e)

EndsWith(text, suffix) ==
    /\ Len(suffix) <= Len(text)
    /\ SubSeq(text, Len(text) - Len(suffix) + 1, Len(text)) = suffix

\* what precedes the payload in the display text: the kind's label
LabelOf(e) == SubSeq(display(e), 1, Len(display(e)) - Len(PayloadText(e)))

\* C9: the display text is the kind's label followed by " '<file>': <message>"
\* (ParseError, EvaluationError) or by ": <message>" (the other kinds); it
\* contains the payload strings verbatim; the label is the same for every
\* payload of a kind, is not empty, and differs from kind to kind.
C9_DisplayFormat ==
    (err # None /\ shown # None) =>
        /\ EndsWith(shown.some, PayloadText(err))
        /\ Len(shown.some) > Len(PayloadText(err))
        /\ Contains(shown.some, MessageOf(err))
        /\ HasFile(err) => Contains(shown.some, err.file)
        /\ \A e \in Errors :
              /\ EndsWith(display(e), PayloadText(e))
              /\ (e.kind = err.kind) <=>
                    (LabelOf(e) = SubSeq(shown.some, 1,
                                         Len(shown.some) - Len(PayloadText(err))))

C9_Witness ==
    /\ err # None
    /\ err.kind = "ParseError"
    /\ err.file = "config.ncl"
    /\ err.message = "unexpected token"
    /\ shown = Some("Failed to parse Nickel file 'config.ncl': unexpected token")

\* the file's base name: the text of its last component, when it has one
HasBaseName(file) == Len(file) > 0 /\ file[Len(file)].ckind = "Normal"
BaseName(file) == file[Len(file)].text

\* the order of Validate's steps, with the display name `expected`
ValidateSteps(expected) ==
    Cmd = "Validate" =>
        /\ Len(calls) <= 2
        /\ Len(calls) >= 1 =>
                /\ calls[1].op = "read_to_string"
                /\ calls[1].path = cli.command.file
                /\ calls[1].out.tag = "Err" =>
                        /\ Len(calls) = 1
                        /\ result.tag = "Err"
                        /\ result.err.kind = "IoError"
        /\ Len(calls) = 2 =>
                /\ calls[1].out.tag = "Ok"
                /\ calls[2].op = "validate"
                /\ calls[2].src = calls[1].out.ok
                /\ calls[2].name = expected
        /\ stdout # <<>> =>
                /\ stdout = <<validate_confirmation>>
                /\ Len(calls) = 2
                /\ calls[2].out.tag = "Ok"
        /\ (Terminated /\ exitCode = Some(0)) => stdout = <<validate_confirmation>>

\* C10 as stated: the read comes first; a failed read returns IoError with
\* no loader call; otherwise validate is called once with the text read and
\* the file's base name, or the placeholder when the file has none; the
\* confirmation line is the only output, printed after validate succeeded.
C10_ValidateOrderBaseName ==
    ValidateSteps(IF HasBaseName(cli.command.file) THEN BaseName(cli.command.file)
                  ELSE "unknown.ncl")

\* C10, amended: the same, with the display name being the file's base name
\* when it has one that is valid Unicode, and the placeholder otherwise.
C10_ValidateOrderUnicodeBaseName ==
    ValidateSteps(IF HasBaseName(cli.command.file)
                     /\ cli.command.file[Len(cli.command.file)].unicode
                  THEN BaseName(cli.command.file)
                  ELSE "unknown.ncl")

C10_Witness ==
    /\ Terminated
    /\ Cmd = "Validate"
    /\ Len(calls) = 2
    /\ calls[2].name = "config.ncl"
    /\ stdout = <<validate_confirmation>>

C10_PlaceholderWitness ==
    /\ Cmd = "Validate"
    /\ Len(calls) = 2
    /\ calls[2].name = "unknown.ncl"

====
